---- MODULE Spec2Model ----
(***************************************************************************)
(* The LSP package's public namespace (plugin/__init__.py) and its output  *)
(* panels (plugin/core/panels.py): panel creation, the read-only           *)
(* discipline of the panel commands, and the debounced server-log queue.   *)
(*                                                                         *)
(* Text is a sequence of one-character strings.  Offsets into a view are   *)
(* 0-based as in the editor API: offset k sits before text[k + 1].         *)
(***************************************************************************)
EXTENDS Integers, Sequences, FiniteSets, TLC

VARIABLES
    import_pc,        \* next statement of plugin/__init__.py to execute
    namespace,        \* names bound in the package namespace so far
    window_valid,     \* window id -> window.is_valid()
    views,            \* view id (index) -> the output panel's view
    to_be_processed,  \* LspUpdateServerPanelCommand.to_be_processed
    timers,           \* pending debounce timers, in scheduling order
    accepted,         \* history: window id -> (prefix, message) pairs enqueued
    inserted,         \* history: window id -> entries inserted by flushes
    timer_hist,       \* history: per pending timer, the log lengths when scheduled
    last_fire         \* history: what the last timer firing saw and did

vars == <<import_pc, namespace, window_valid, views, to_be_processed, timers,
          accepted, inserted, timer_hist, last_fire>>

panel_vars == <<window_valid, views, to_be_processed, timers,
                accepted, inserted, timer_hist, last_fire>>

-----------------------------------------------------------------------------
(* Bounds of the model *)

\* views that can be created in one run
MaxViews == 2
\* update_server_panel calls accepted in one run of Spec
MaxMessages == 2
\* update_server_panel calls accepted in one run of SpecLog
MaxLogMessages == 3
\* update_server_panel calls accepted in one run of SpecBurst / SpecLive
MaxBurst == 12
\* update_server_panel calls accepted in one run of SpecCap
MaxCapMessages == 3
\* SpecCap starts with a server panel holding MAX - CapSlack .. MAX lines
CapSlack == 2

WindowIds == {1, 2}

\* the window the burst specifications log to
BurstWindows == {1}

-----------------------------------------------------------------------------
(* Program constants *)

SERVER_PANEL_MAX_LINES == 500

\* the literal of `if current_length >= 10`
QUEUE_FLUSH_LENGTH == 10

NL == "\n"
CR == "\r"

Diagnostics == "diagnostics"
References == "references"
LanguageServers == "language servers"

\* the public fields of class PanelName
PanelName == {Diagnostics, References, LanguageServers}

\* None, for a view id
NoView == 0

-----------------------------------------------------------------------------
(* plugin/__init__.py *)

\* The names each statement of the module binds, in execution order.
ImportStatements ==
    << {"css"}, {"Notification"}, {"Request"}, {"Response"},
       {"AbstractPlugin"}, {"register_plugin"}, {"Session"},
       {"SessionBufferProtocol"}, {"unregister_plugin"}, {"ClientConfig"},
       {"LanguageConfig"}, {"WorkspaceFolder"}, {"__version__"},
       {"filename_to_uri"} >>

ImportDonePc == Len(ImportStatements) + 1

PublicApi ==
    { "__version__", "AbstractPlugin", "ClientConfig", "css", "filename_to_uri",
      "LanguageConfig", "Notification", "register_plugin", "Request", "Response",
      "Session", "SessionBufferProtocol", "unregister_plugin", "uri_to_filename",
      "WorkspaceFolder" }

NamespaceAfter(k) == UNION { ImportStatements[i] : i \in 1..k }

ImportDone == import_pc = ImportDonePc

ImportStep ==
    /\ import_pc < ImportDonePc
    /\ namespace' = namespace \cup ImportStatements[import_pc]
    /\ import_pc' = import_pc + 1
    /\ UNCHANGED panel_vars

-----------------------------------------------------------------------------
(* Text of a view *)

Max(a, b) == IF a >= b THEN a ELSE b
Min(a, b) == IF a <= b THEN a ELSE b

RECURSIVE Concat(_)
Concat(ss) == IF ss = <<>> THEN <<>> ELSE Head(ss) \o Concat(Tail(ss))

\* str.replace("\r\n", "\n"): left to right, non-overlapping
RECURSIVE ReplaceCRLF(_)
ReplaceCRLF(s) ==
    IF s = <<>> THEN <<>>
    ELSE IF Len(s) >= 2 /\ s[1] = CR /\ s[2] = NL
         THEN <<NL>> \o ReplaceCRLF(SubSeq(s, 3, Len(s)))
         ELSE <<s[1]>> \o ReplaceCRLF(Tail(s))

\* "{}: {}\n".format(prefix, message)
Format(prefix, message) == prefix \o <<":", " ">> \o message \o <<NL>>

\* view.size()
Size(text) == Len(text)

\* view.rowcol(view.size())[0]: the row of the end of the buffer
RowOfEnd(text) == Cardinality({ i \in 1..Len(text) : text[i] = NL })

\* view.insert(edit, view.size(), s)
InsertAtEnd(text, s) == text \o s

\* view.full_line(point): the line holding point, with its newline
FullLine(text, point) ==
    LET starts == { a \in 0..point : a = 0 \/ text[a] = NL }
        ends   == { b \in (point + 1)..Len(text) : text[b] = NL } \cup {Len(text)}
    IN  [a |-> CHOOSE a \in starts : \A x \in starts : x <= a,
         b |-> CHOOSE b \in ends : \A x \in ends : b <= x]

\* view.erase(edit, region)
Erase(text, region) ==
    SubSeq(text, 1, region.a) \o SubSeq(text, region.b + 1, Len(text))

\* view.replace(edit, region, s)
Replace(text, region, s) ==
    SubSeq(text, 1, region.a) \o s \o SubSeq(text, region.b + 1, Len(text))

-----------------------------------------------------------------------------
(* Panels *)

\* window.create_output_panel(name) on a window without that panel
create_output_panel(w, name) ==
    [window |-> w, name |-> name, valid |-> TRUE, read_only |-> FALSE, text |-> <<>>]

\* view.set_read_only(flag)
set_read_only(view, flag) == [view EXCEPT !.read_only = flag]

\* create_panel: the panel is set read-only before it is returned
create_panel(w, name) == set_read_only(create_output_panel(w, name), TRUE)

\* window.find_output_panel(name): the view id, or NoView
find_output_panel(w, name) ==
    LET found == { v \in DOMAIN views :
                     views[v].window = w /\ views[v].name = name /\ views[v].valid }
    IN  IF found = {} THEN NoView ELSE CHOOSE v \in found : TRUE

\* ensure_panel: the view id it returns ...
ensure_panel(w, name) ==
    IF find_output_panel(w, name) # NoView
    THEN find_output_panel(w, name)
    ELSE Len(views) + 1

\* ... and the views after it
ensure_panel_views(w, name) ==
    IF find_output_panel(w, name) # NoView
    THEN views
    ELSE Append(views, create_panel(w, name))

\* with mutable(view): <body>.  text is the buffer the body leaves; raised says
\* whether the body left by an exception.
mutable(view, text, raised) ==
    LET opened == set_read_only(view, FALSE)
        after  == [opened EXCEPT !.text = text]
    IN  IF raised THEN after ELSE set_read_only(after, TRUE)

\* destroy_output_panels(window)
DestroyOutputPanels(w) ==
    /\ ImportDone
    /\ \E name \in PanelName : find_output_panel(w, name) # NoView
    /\ views' = [v \in DOMAIN views |->
                    IF views[v].window = w /\ views[v].name \in PanelName /\ views[v].valid
                    THEN [views[v] EXCEPT !.valid = FALSE]
                    ELSE views[v]]
    /\ UNCHANGED <<import_pc, namespace, window_valid, to_be_processed, timers,
                   accepted, inserted, timer_hist, last_fire>>

\* The editor closes a window: the window and its views stop being valid.
CloseWindow(w) ==
    /\ ImportDone
    /\ window_valid[w]
    /\ window_valid' = [window_valid EXCEPT ![w] = FALSE]
    /\ views' = [v \in DOMAIN views |->
                    IF views[v].window = w THEN [views[v] EXCEPT !.valid = FALSE]
                    ELSE views[v]]
    /\ UNCHANGED <<import_pc, namespace, to_be_processed, timers,
                   accepted, inserted, timer_hist, last_fire>>

\* LspClearPanelCommand.run
LspClearPanel(v) ==
    /\ ImportDone
    /\ views[v].valid
    /\ views' = [views EXCEPT ![v] =
                    mutable(@, Erase(@.text, [a |-> 0, b |-> Size(@.text)]), FALSE)]
    /\ UNCHANGED <<import_pc, namespace, window_valid, to_be_processed, timers,
                   accepted, inserted, timer_hist, last_fire>>

\* The `characters` arguments run_command passes: None, a string, a number.
CharactersArgs ==
    { [type |-> "NoneType", value |-> <<>>],
      [type |-> "str", value |-> <<"x", NL>>],
      [type |-> "int", value |-> <<"5">>] }

\* characters or ""
OrEmpty(characters) ==
    IF characters.type = "NoneType" \/ characters.value = <<>>
    THEN [type |-> "str", value |-> <<>>]
    ELSE characters

\* LspUpdatePanelCommand.run: view.replace raises TypeError for a non-string
LspUpdatePanel(v, characters) ==
    /\ ImportDone
    /\ views[v].valid
    /\ LET arg    == OrEmpty(characters)
           raised == arg.type # "str"
           text   == views[v].text
       IN  views' = [views EXCEPT ![v] =
                mutable(@, IF raised THEN text
                           ELSE Replace(text, [a |-> 0, b |-> Size(text)], arg.value),
                        raised)]
    /\ UNCHANGED <<import_pc, namespace, window_valid, to_be_processed, timers,
                   accepted, inserted, timer_hist, last_fire>>

-----------------------------------------------------------------------------
(* The server panel and its debounced queue *)

\* the strings update_server_panel is called with
Prefixes == { <<"s">> }
Messages == { <<"a">>, <<"b", CR, NL, "c">> }
BurstMessages == { <<"a">> }

\* ensure_server_panel(window)
ensure_server_panel(w) == ensure_panel(w, LanguageServers)

\* mutant: the new item goes to the front of the list
SetDefaultPrepend(queues, w, item) ==
    [x \in DOMAIN queues \cup {w} |->
        IF x = w
        THEN (IF w \in DOMAIN queues THEN <<item>> \o queues[w] ELSE <<item>>)
        ELSE queues[x]]

\* to_be_processed.setdefault(window_id, []).append(item)
SetDefaultAppend(queues, w, item) ==
    [x \in DOMAIN queues \cup {w} |->
        IF x = w
        THEN (IF w \in DOMAIN queues THEN Append(queues[w], item) ELSE <<item>>)
        ELSE queues[x]]

\* to_be_processed.pop(window_id): the dictionary it leaves
Pop(queues, w) == [x \in DOMAIN queues \ {w} |-> queues[x]]

\* to_be_processed.get(window_id), as a length: -1 stands for None
LengthOrNone(queues, w) == IF w \in DOMAIN queues THEN Len(queues[w]) ELSE -1

\* types.debounced(f, timeout_ms, condition): one more timer is pending; timers
\* of equal delay fire in the order they were scheduled
debounced(pending, timer) == Append(pending, timer)

\* mutant: the length is compared with the length before the append
condition_before_append(t) ==
    IF t.panel = NoView THEN FALSE
    ELSE IF ~views[t.panel].valid THEN FALSE
    ELSE IF t.window_id \notin DOMAIN to_be_processed THEN FALSE
    ELSE IF Len(to_be_processed[t.window_id]) >= QUEUE_FLUSH_LENGTH THEN TRUE
    ELSE Len(to_be_processed[t.window_id]) = t.previous_length - 1

\* mutant: the size trigger is > instead of >=
condition_above(t) ==
    IF t.panel = NoView THEN FALSE
    ELSE IF ~views[t.panel].valid THEN FALSE
    ELSE IF t.window_id \notin DOMAIN to_be_processed THEN FALSE
    ELSE IF Len(to_be_processed[t.window_id]) > QUEUE_FLUSH_LENGTH THEN TRUE
    ELSE Len(to_be_processed[t.window_id]) = t.previous_length

\* mutant: no size trigger
condition_without_size(t) ==
    IF t.panel = NoView THEN FALSE
    ELSE IF ~views[t.panel].valid THEN FALSE
    ELSE IF t.window_id \notin DOMAIN to_be_processed THEN FALSE
    ELSE Len(to_be_processed[t.window_id]) = t.previous_length

\* the closure condition() of update_server_panel, for one timer
condition(t) ==
    IF t.panel = NoView THEN FALSE
    ELSE IF ~views[t.panel].valid THEN FALSE
    ELSE IF t.window_id \notin DOMAIN to_be_processed THEN FALSE
    ELSE IF Len(to_be_processed[t.window_id]) >= QUEUE_FLUSH_LENGTH THEN TRUE
    ELSE Len(to_be_processed[t.window_id]) = t.previous_length

\* the calls update_server_panel has accepted so far
TotalAccepted == Len(accepted[1]) + Len(accepted[2])

\* update_server_panel(window, prefix, message); limit bounds the calls accepted
UpdateServerPanel(w, prefix, message, limit) ==
    /\ ImportDone
    /\ IF ~window_valid[w]
       THEN UNCHANGED panel_vars
       ELSE /\ find_output_panel(w, LanguageServers) # NoView \/ Len(views) < MaxViews
            /\ TotalAccepted < limit
            /\ LET panel  == ensure_server_panel(w)
                   queues == SetDefaultAppend(to_be_processed, w, <<prefix, message>>)
               IN  /\ views' = ensure_panel_views(w, LanguageServers)
                   /\ to_be_processed' = queues
                   /\ timers' = debounced(timers,
                                   [window_id |-> w, panel |-> panel,
                                    previous_length |-> Len(queues[w])])
                   /\ timer_hist' = Append(timer_hist,
                                   [accepted |-> Len(accepted[w]) + 1,
                                    inserted |-> Len(inserted[w])])
                   /\ accepted' = [accepted EXCEPT ![w] = Append(@, <<prefix, message>>)]
            /\ UNCHANGED <<window_valid, inserted, last_fire>>
    /\ UNCHANGED <<import_pc, namespace>>

\* the entries the loop of LspUpdateServerPanelCommand.run inserts, in order
Entries(to_process) ==
    [i \in 1..Len(to_process) |->
        Format(to_process[i][1], ReplaceCRLF(to_process[i][2]))]

\* the loop of run: every entry is inserted at the end of the buffer
RECURSIVE InsertAll(_, _)
InsertAll(text, entries) ==
    IF entries = <<>> THEN text
    ELSE InsertAll(InsertAtEnd(text, Head(entries)), Tail(entries))

\* mutant: one line too few is erased
LinesToEraseOneShort(total_lines) == Max(0, total_lines - SERVER_PANEL_MAX_LINES - 1)

\* range(0, max(0, total_lines - SERVER_PANEL_MAX_LINES))
LinesToErase(total_lines) == Max(0, total_lines - SERVER_PANEL_MAX_LINES)

\* the regions of the first n whole lines, from point on
RECURSIVE CollectRegions(_, _, _)
CollectRegions(text, point, n) ==
    IF n = 0 THEN <<>>
    ELSE LET region == FullLine(text, point)
         IN  <<region>> \o CollectRegions(text, region.b, n - 1)

\* for region in reversed(regions): view.erase(edit, region)
RECURSIVE EraseReversed(_, _)
EraseReversed(text, regions) ==
    IF regions = <<>> THEN text
    ELSE EraseReversed(Erase(text, regions[Len(regions)]),
                       SubSeq(regions, 1, Len(regions) - 1))

\* the body of `with mutable(self.view)` in LspUpdateServerPanelCommand.run
RunBody(text, to_process) ==
    LET filled      == InsertAll(text, Entries(to_process))
        total_lines == RowOfEnd(filled)
        regions     == CollectRegions(filled, 0, LinesToErase(total_lines))
    IN  EraseReversed(filled, regions)

\* A debounce timer fires: if condition() holds, the panel runs
\* lsp_update_server_panel for the timer's window.
TimerFire ==
    /\ ImportDone
    /\ timers # <<>>
    /\ LET t == Head(timers)
           h == Head(timer_hist)
           w == t.window_id
       IN  /\ timers' = Tail(timers)
           /\ timer_hist' = Tail(timer_hist)
           /\ IF condition(t)
              THEN LET to_process == to_be_processed[w]
                   IN  /\ to_be_processed' = Pop(to_be_processed, w)
                       /\ views' = [views EXCEPT ![t.panel] =
                                       mutable(@, RunBody(@.text, to_process), FALSE)]
                       /\ inserted' = [inserted EXCEPT ![w] = @ \o Entries(to_process)]
              ELSE UNCHANGED <<to_be_processed, views, inserted>>
           /\ last_fire' =
                [window_id       |-> w,
                 current_length  |-> LengthOrNone(to_be_processed, w),
                 previous_length |-> t.previous_length,
                 panel_valid     |-> views[t.panel].valid,
                 flushed         |-> condition(t),
                 enqueued_since  |-> Len(accepted[w]) > h.accepted,
                 flushed_since   |-> Len(inserted[w]) > h.inserted,
                 erased          |-> IF condition(t)
                                     THEN LinesToErase(RowOfEnd(InsertAll(
                                              views[t.panel].text,
                                              Entries(to_be_processed[w]))))
                                     ELSE 0]
    /\ UNCHANGED <<import_pc, namespace, window_valid, accepted>>

-----------------------------------------------------------------------------
(* Specifications *)

NoFire ==
    [window_id |-> 0, current_length |-> -1, previous_length |-> 0,
     panel_valid |-> FALSE, flushed |-> FALSE, enqueued_since |-> FALSE,
     flushed_since |-> FALSE, erased |-> 0]

InitPanels ==
    /\ window_valid = [w \in WindowIds |-> TRUE]
    /\ views = <<>>
    /\ to_be_processed = <<>>
    /\ timers = <<>>
    /\ accepted = [w \in WindowIds |-> <<>>]
    /\ inserted = [w \in WindowIds |-> <<>>]
    /\ timer_hist = <<>>
    /\ last_fire = NoFire

\* Before the package is imported.
Init ==
    /\ import_pc = 1
    /\ namespace = {}
    /\ InitPanels

\* The package imported, nothing else done.
InitImported ==
    /\ import_pc = ImportDonePc
    /\ namespace = NamespaceAfter(Len(ImportStatements))
    /\ InitPanels

Next ==
    \/ ImportStep
    \/ \E w \in WindowIds : DestroyOutputPanels(w)
    \/ \E w \in WindowIds : CloseWindow(w)
    \/ \E v \in DOMAIN views : LspClearPanel(v)
    \/ \E v \in DOMAIN views, c \in CharactersArgs : LspUpdatePanel(v, c)
    \/ \E w \in WindowIds, p \in Prefixes, m \in Messages :
          UpdateServerPanel(w, p, m, MaxMessages)
    \/ TimerFire

Spec == Init /\ [][Next]_vars

\* The server logs of the windows alone: the two generic panel commands, which
\* touch neither the queues nor the timers, are left out.
NextLog ==
    \/ \E w \in WindowIds : DestroyOutputPanels(w)
    \/ \E w \in WindowIds : CloseWindow(w)
    \/ \E w \in WindowIds, p \in Prefixes, m \in Messages :
          UpdateServerPanel(w, p, m, MaxLogMessages)
    \/ TimerFire

SpecLog == InitImported /\ [][NextLog]_vars

\* The server log of one window under a burst of messages.
NextBurst ==
    \/ \E w \in BurstWindows : DestroyOutputPanels(w)
    \/ \E w \in BurstWindows : CloseWindow(w)
    \/ \E w \in BurstWindows, p \in Prefixes, m \in BurstMessages :
          UpdateServerPanel(w, p, m, MaxBurst)
    \/ TimerFire

SpecBurst == InitImported /\ [][NextBurst]_vars

\* A step in which the oldest pending timer fires.  TimerFire is the only
\* action that shortens timers, and it is enabled whenever a timer is pending.
FireStep == timers # <<>> /\ timers' = Tail(timers)

\* Every scheduled timer fires in the end.
SpecLive == InitImported /\ [][NextBurst]_vars /\ WF_timers(FireStep)

\* A server panel that has been logging for a while: window 1's panel holds
\* k lines, "s: 1" .. "s: k", each flushed as one message.
OldLog(k) ==
    [j \in 1..(5 * k) |->
        LET i == ((j - 1) \div 5) + 1
            c == (j - 1) % 5
        IN  CASE c = 0 -> "s"
              [] c = 1 -> ":"
              [] c = 2 -> " "
              [] c = 3 -> ToString(i)
              [] OTHER -> NL]

InitCap ==
    /\ import_pc = ImportDonePc
    /\ namespace = NamespaceAfter(Len(ImportStatements))
    /\ window_valid = [w \in WindowIds |-> TRUE]
    /\ \E k \in (SERVER_PANEL_MAX_LINES - CapSlack)..SERVER_PANEL_MAX_LINES :
          views = << [create_panel(1, LanguageServers) EXCEPT !.text = OldLog(k)] >>
    /\ to_be_processed = <<>>
    /\ timers = <<>>
    /\ accepted = [w \in WindowIds |-> <<>>]
    /\ inserted = [w \in WindowIds |-> <<>>]
    /\ timer_hist = <<>>
    /\ last_fire = NoFire

NextCap ==
    \/ \E w \in BurstWindows, p \in Prefixes, m \in Messages :
          UpdateServerPanel(w, p, m, MaxCapMessages)
    \/ TimerFire

SpecCap == InitCap /\ [][NextCap]_vars

-----------------------------------------------------------------------------
(* Properties *)

Pending(w) == w \in DOMAIN to_be_processed

Queue(w) == IF w \in DOMAIN to_be_processed THEN to_be_processed[w] ELSE <<>>

\* a server panel of the window has stopped being valid
PanelLost(w) ==
    \E v \in DOMAIN views :
        views[v].window = w /\ views[v].name = LanguageServers /\ ~views[v].valid

Delivered(w) == inserted[w] = Entries(accepted[w])

\* a step in which the oldest pending timer fires and its window's queue is flushed
FlushStep ==
    /\ FireStep
    /\ Head(timers).window_id \in DOMAIN to_be_processed
    /\ Head(timers).window_id \notin DOMAIN to_be_processed'

IsSuffix(s, t) ==
    /\ Len(s) <= Len(t)
    /\ s = SubSeq(t, Len(t) - Len(s) + 1, Len(t))

C2_FlushOnlyIfNothingEnqueuedSince ==
    [][ ( /\ FlushStep
          /\ Len(Queue(Head(timers).window_id)) < QUEUE_FLUSH_LENGTH )
        => Len(accepted[Head(timers).window_id]) = Head(timer_hist).accepted ]_vars

\* C3: when a timer of a window fires while the window's queue holds 10 or
\* more messages and the timer's panel is valid, the whole queue is flushed in
\* that firing: the queue is gone, and all its entries were inserted, in order,
\* at the end of the panel, whatever length the timer recorded.
C3_MaxSizeFlush ==
    [][ ( /\ FireStep
          /\ views[Head(timers).panel].valid
          /\ Len(Queue(Head(timers).window_id)) >= QUEUE_FLUSH_LENGTH )
        => LET w == Head(timers).window_id
               p == Head(timers).panel
           IN  /\ w \notin DOMAIN to_be_processed'
               /\ inserted'[w] = inserted[w] \o Entries(to_be_processed[w])
               /\ IsSuffix(Concat(Entries(to_be_processed[w])), views'[p].text)
               /\ views'[p].read_only ]_vars

C3_Witness ==
    /\ last_fire.flushed
    /\ last_fire.panel_valid
    /\ last_fire.current_length >= QUEUE_FLUSH_LENGTH
    /\ last_fire.previous_length < last_fire.current_length
    /\ ~Pending(last_fire.window_id)

\* C4 as stated: the queue of a window never holds more than 10 messages.
C4_QueueNeverExceedsTen ==
    \A w \in DOMAIN to_be_processed : Len(to_be_processed[w]) <= QUEUE_FLUSH_LENGTH

\* C4 amended: the queue can grow past 10 between timer firings, but right
\* after every firing of a timer whose panel is valid, the timer's window has
\* fewer than 10 messages queued.
C4_BelowTenAfterEveryFiring ==
    [][ (FireStep /\ views[Head(timers).panel].valid)
        => LengthOrNone(to_be_processed', Head(timers).window_id)
              < QUEUE_FLUSH_LENGTH ]_vars

C4_Witness ==
    /\ last_fire.panel_valid
    /\ last_fire.current_length > QUEUE_FLUSH_LENGTH
    /\ last_fire.flushed

\* C5: every valid panel is read-only whenever no panel command is running
\* (the commands are single steps here, so in every state), also after a
\* command that left its mutable block by an exception.
C5_PanelsAreReadOnly ==
    \A v \in DOMAIN views : views[v].valid => views[v].read_only

\* C6: once the package is imported, every name of __all__ is bound in its
\* namespace.
C6_PublicApiIsBound ==
    ImportDone => PublicApi \subseteq namespace

\* C7: after every flush the panel holds at most SERVER_PANEL_MAX_LINES lines,
\* and they are the most recent ones: the buffer is the old buffer followed by
\* the inserted entries, less whole lines at its top, as few as the cap needs.
C7_LineCap ==
    [][ FlushStep
        => LET p     == Head(timers).panel
               w     == Head(timers).window_id
               all   == views[p].text \o Concat(Entries(to_be_processed[w]))
               after == views'[p].text
           IN  /\ RowOfEnd(after) <= SERVER_PANEL_MAX_LINES
               /\ RowOfEnd(after) = Min(RowOfEnd(all), SERVER_PANEL_MAX_LINES)
               /\ IsSuffix(after, all)
               /\ Len(after) = Len(all) \/ all[Len(all) - Len(after)] = NL ]_vars

C7_Witness ==
    /\ last_fire.flushed
    /\ last_fire.erased >= 3
    /\ \E v \in DOMAIN views :
          /\ views[v].valid
          /\ RowOfEnd(views[v].text) = SERVER_PANEL_MAX_LINES

\* C8: for each window, the entries inserted over all flushes, followed by the
\* entries of the messages still queued, are the entries of the messages
\* accepted, in arrival order, each once.
C8_OrderAndExactlyOnce ==
    \A w \in WindowIds :
        inserted[w] \o Entries(Queue(w)) = Entries(accepted[w])

C8_Witness ==
    \E w \in WindowIds :
        /\ Len(inserted[w]) >= 2
        /\ inserted[w][1] # inserted[w][2]
        /\ Delivered(w)

====
